---- MODULE Spec2Model ----
(***************************************************************************)
(* A model of yt2stems.py: the StemWorker pipeline (run), its subprocess   *)
(* runner (_run_subprocess) and the helpers they call.                     *)
(*                                                                         *)
(* Text is modelled as a sequence of one-character strings (and a few      *)
(* multi-character tokens for fixed message parts); a path is a record     *)
(* [dir, stem, suffix].                                                    *)
(***************************************************************************)
EXTENDS Integers, Sequences, FiniteSets, TLC

\* ------------------------------------------------------------------ bounds
\* Diagnostic (stderr) lines the external tools print during one job.
MaxLines == 2
\* Largest exit code an external tool returns (0 is success).
MaxExit == 1

\* ------------------------------------------------------------- text helpers
Digits == {"0", "1", "2", "3", "4", "5", "6", "7", "8", "9"}

\* int() of one decimal digit.
DigitVal(c) ==
    CASE c = "0" -> 0 [] c = "1" -> 1 [] c = "2" -> 2 [] c = "3" -> 3
      [] c = "4" -> 4 [] c = "5" -> 5 [] c = "6" -> 6 [] c = "7" -> 7
      [] c = "8" -> 8 [] c = "9" -> 9

\* int(m.group(1)): the value of a run of decimal digits.
RECURSIVE ToInt(_)
ToInt(ds) ==
    IF ds = <<>> THEN 0
    ELSE 10 * ToInt(SubSeq(ds, 1, Len(ds) - 1)) + DigitVal(ds[Len(ds)])

\* r"(\d{1,3})%" tried at position i: the number of digits of the match the
\* regex engine finds there (greedy: three digits first, then two, then one),
\* or 0 when there is no match at i.
MatchAt(line, i) ==
    LET ok(k) == /\ i + k <= Len(line)
                 /\ \A j \in i..(i + k - 1) : line[j] \in Digits
                 /\ line[i + k] = "%"
    IN  IF ok(3) THEN 3 ELSE IF ok(2) THEN 2 ELSE IF ok(1) THEN 1 ELSE 0

\* pattern.search(line): the positions where the pattern matches.
MatchPositions(line) == {i \in 1..Len(line) : MatchAt(line, i) > 0}

\* m is not None
HasMarker(line) == MatchPositions(line) # {}

\* int(m.group(1)) of the leftmost match.
MarkerPct(line) ==
    LET i == CHOOSE p \in MatchPositions(line) :
                 \A q \in MatchPositions(line) : p <= q
    IN  ToInt(SubSeq(line, i, i + MatchAt(line, i) - 1))

Whitespace == {" ", "\n"}

\* str.strip() with the characters in cs.
RECURSIVE StripLeft(_, _)
StripLeft(s, cs) ==
    IF s # <<>> /\ Head(s) \in cs THEN StripLeft(Tail(s), cs) ELSE s

RECURSIVE StripRight(_, _)
StripRight(s, cs) ==
    IF s # <<>> /\ s[Len(s)] \in cs
    THEN StripRight(SubSeq(s, 1, Len(s) - 1), cs) ELSE s

Strip(s, cs) == StripRight(StripLeft(s, cs), cs)

\* ''.join(lines)
RECURSIVE Join(_)
Join(lines) == IF lines = <<>> THEN <<>> ELSE Head(lines) \o Join(Tail(lines))

\* needle occurs in hay as a contiguous run.
Contains(hay, needle) ==
    \E i \in 0..(Len(hay) - Len(needle)) :
        SubSeq(hay, i + 1, i + Len(needle)) = needle

\* ---------------------------------------------------------- sanitize_filename
IllegalChars == {"<", ">", ":", "\"", "/", "\\", "|", "?", "*"}

\* re.sub(r'[<>:"/\\|?*]', '_', name)
RECURSIVE ReplaceIllegal(_)
ReplaceIllegal(s) ==
    IF s = <<>> THEN <<>>
    ELSE <<IF Head(s) \in IllegalChars THEN "_" ELSE Head(s)>>
             \o ReplaceIllegal(Tail(s))

\* CollapseRuns with the pattern r'\s+': underscores are not collapsed.
RECURSIVE CollapseRunsSpacesOnly(_)
CollapseRunsSpacesOnly(s) ==
    IF s = <<>> THEN <<>>
    ELSE IF Head(s) \in Whitespace
         THEN <<"_">> \o CollapseRunsSpacesOnly(StripLeft(s, Whitespace))
         ELSE <<Head(s)>> \o CollapseRunsSpacesOnly(Tail(s))

\* re.sub(r'[\s_]+', '_', sanitized)
RECURSIVE CollapseRuns(_)
CollapseRuns(s) ==
    IF s = <<>> THEN <<>>
    ELSE IF Head(s) \in (Whitespace \cup {"_"})
         THEN <<"_">> \o CollapseRuns(StripLeft(s, Whitespace \cup {"_"}))
         ELSE <<Head(s)>> \o CollapseRuns(Tail(s))

\* sanitize_filename with its first two substitutions in the other order.
sanitize_filename_CollapseFirst(name) ==
    Strip(ReplaceIllegal(CollapseRuns(name)), {"_", " "})

sanitize_filename(name) == Strip(CollapseRuns(ReplaceIllegal(name)), {"_", " "})

\* ------------------------------------------------------------------- the job
Bitrates == {"96", "128", "192", "320"}
ModelIds == {"htdemucs", "htdemucs_ft", "htdemucs_6s", "mdx", "mdx_extra_q"}

\* The sources a job is started with: a URL (whose download is named by the
\* remote title), a local file outside the temp directory, and a local file
\* that already lies in the temp directory under a clean name (one that
\* looks like a transcoded MP3).
DirtyStem == <<"a", ":", " ", "b">>
CleanStem == <<"a", "_", "9", "6", "k">>
Sources ==
    { [is_file |-> FALSE, dir |-> "tmp",  stem |-> DirtyStem, suffix |-> ".webm"],
      [is_file |-> TRUE,  dir |-> "home", stem |-> DirtyStem, suffix |-> ".wav"],
      [is_file |-> TRUE,  dir |-> "tmp",  stem |-> CleanStem, suffix |-> ".mp3"] }

\* The jobs checked: every source with every bitrate and with every model
\* (each bitrate with the default model, each model with the default bitrate),
\* two-stem mode on and off.
Jobs ==
    {j \in [src : Sources, bitrate : Bitrates, model : ModelIds, two_stem : BOOLEAN] :
        j.bitrate = "320" \/ j.model = "htdemucs"}

\* Lines an external tool may print on its diagnostic stream.
StderrLines ==
    { <<" ", "\n">>,
      <<"5", "%", "\n">>,
      <<"5", "0", "%", "\n">>,
      <<"9", "9", "9", "%", "\n">> }
\* What it may print on its standard output.
StdoutTexts == { <<>>, << <<"o", "\n">> >> }
ExitCodes == 0..MaxExit

\* Files the separation tool writes (vocals / no_vocals in two-stem mode).
StemNames == {"vocals.wav", "no_vocals.wav"}

Path(d, stem, suffix) == [dir |-> d, stem |-> stem, suffix |-> suffix]
NoPath == Path("", <<>>, "")

\* str(n) for a non-negative integer.
DigitChar(d) ==
    CASE d = 0 -> "0" [] d = 1 -> "1" [] d = 2 -> "2" [] d = 3 -> "3"
      [] d = 4 -> "4" [] d = 5 -> "5" [] d = 6 -> "6" [] d = 7 -> "7"
      [] d = 8 -> "8" [] d = 9 -> "9"

RECURSIVE IntStr(_)
IntStr(n) ==
    IF n < 10 THEN <<DigitChar(n)>>
    ELSE IntStr(n \div 10) \o <<DigitChar(n % 10)>>

\* --------------------------------------------------------------------- state
VARIABLES
    job,               \* the worker's constructor arguments
    pc,                \* the worker's position in run()
    events,            \* the signals emitted so far, in emission order
    files_to_cleanup,  \* run(): the registered temp files
    tmp_path,          \* run(): the acquired audio file
    files,             \* the regular files that exist (source and temp dir)
    scratch,           \* the separation tool's output tree under the temp dir
    outdir,            \* what the job has put into the output directory
    call,              \* _run_subprocess: cmd, progress_offset, progress_span
    stderr_lines,      \* _run_subprocess: the stderr lines read so far
    stdout_lines,      \* _run_subprocess: the stdout lines read
    returncode,        \* _run_subprocess: proc.returncode, -1 before wait()
    exc,               \* the exception raised inside the try block, if any
    todo,              \* run(): what is left of stems_source.iterdir()
    idx,               \* run(): position of the cleanup loop
    stages,            \* history: the stages entered, in order
    failed,            \* history: the subprocess whose exit code raised
    sweeps,            \* history: how often the cleanup loop was entered
    linesRead,         \* history: diagnostic lines read during the job
    pipe,              \* the two OS pipes of one subprocess and their reader
    gui,               \* MainWindow, its workers and their temp files
    fn                 \* a helper function applied to one input

vars == <<job, pc, events, files_to_cleanup, tmp_path, files, scratch, outdir,
          call, stderr_lines, stdout_lines, returncode, exc, todo, idx,
          stages, failed, sweeps, linesRead, pipe, gui, fn>>

\* One worker's run() in detail.
workerVars == <<job, pc, events, files_to_cleanup, tmp_path, files, scratch,
                outdir, call, stderr_lines, stdout_lines, returncode, exc, todo,
                idx, stages, failed, sweeps, linesRead>>
\* What the detailed run() leaves alone.
aux == <<pipe, gui, fn>>

fsVars   == <<files, scratch, outdir>>
procVars == <<call, stderr_lines, stdout_lines, returncode>>

\* ------------------------------------------------------------------- signals
Log(text)  == [type |-> "log",  val |-> text]
Prog(n)    == [type |-> "prog", val |-> n]
Done(text) == [type |-> "done", val |-> text]

IsProg(e) == e.type = "prog"
IsDone(e) == e.type = "done"
IsLog(e)  == e.type = "log"

SuccessPrefix == "Finished - stems ready in "
ErrorPrefix   == "Error: "

IsSuccessDone(e) == IsDone(e) /\ e.val[1] = SuccessPrefix
IsFailureDone(e) == IsDone(e) /\ e.val[1] = ErrorPrefix

\* ------------------------------------------------------- paths of the job
source_path == Path(job.src.dir, job.src.stem, job.src.suffix)

\* title = sanitize_filename(<stem of the source or of the download>)
title == sanitize_filename(job.src.stem)

\* tmp_dir / f"{title}{source_path.suffix}"
LocalTmpPath == Path("tmp", title, job.src.suffix)

\* Path(ydl.prepare_filename(info)): outtmpl is tmp_dir/%(title)s.%(ext)s
DownloadPath == Path("tmp", job.src.stem, job.src.suffix)

\* mp3_temp_path = tmp_dir / f"{title}_{self.bitrate}k.mp3"
BitrateText(b) ==
    CASE b = "96" -> <<"9", "6">> [] b = "128" -> <<"1", "2", "8">>
      [] b = "192" -> <<"1", "9", "2">> [] b = "320" -> <<"3", "2", "0">>
mp3_stem == title \o <<"_">> \o BitrateText(job.bitrate) \o <<"k">>
mp3_temp_path == Path("tmp", mp3_stem, ".mp3")

\* stems_source = demucs_temp_out / self.model / mp3_temp_path.stem
stems_source == <<"tmp/demucs_output/", job.model, "/">> \o mp3_stem
\* stems_dest = self.outdir / self.model / title
stems_dest == <<"out/", job.model, "/">> \o title

NoCall == [cmd |-> "none", progress_offset |-> 0, progress_span |-> 0]
NoExc  == [raised |-> FALSE, text |-> <<>>]
Raised(text) == [raised |-> TRUE, text |-> text]
NoFail == [cmd |-> "none", returncode |-> 0, stderr |-> <<>>, stdout |-> <<>>,
           at |-> 0]

\* ------------------------------------------------ the other views, at rest
\* Bounds of the pipe view: the capacity of an OS pipe, in lines, and the
\* lines a subprocess writes before it exits.
MaxPipeCap == 2
MaxWrites == 3
\* Bound of the window view: the jobs the user starts.
MaxJobs == 2
\* Bound of the function view: the length of an input string.
MaxStrLen == 4

\* No subprocess: Popen has not been called.
NoPipe == [cap |-> 0, err |-> 0, out |-> 0, pending |-> "none", written |-> 0,
           exited |-> FALSE, reader |-> "idle", gotErr |-> 0, gotOut |-> 0]

\* The temp files two jobs can share: the acquired audio and the MP3 of a
\* source (lines 119 and 148 name them by title and bitrate only).
GSources == {"A", "B"}
GPaths == {"audio", "mp3"} \X GSources
WorkerIds == 1..MaxJobs

\* MainWindow after __init__ (lines 220-300): button enabled, no worker.
NoGui == [run_btn |-> TRUE, started |-> 0, inbox |-> <<>>, crashed |-> FALSE,
          wpc |-> [w \in WorkerIds |-> "idle"],
          wsrc |-> [w \in WorkerIds |-> "A"],
          reg |-> [w \in WorkerIds |-> <<>>],
          widx |-> [w \in WorkerIds |-> 0],
          fs |-> [p \in GPaths |-> 0]]

\* No function applied.
NoFn == [op |-> "none", arg |-> <<>>, offset |-> 0, span |-> 0, res |-> <<>>,
         again |-> <<>>]

\* ---------------------------------------------------------------------- Init
Init ==
    /\ job \in Jobs
    /\ pc = "start"
    /\ events = <<>>
    /\ files_to_cleanup = <<>>
    /\ tmp_path = NoPath
    /\ files = IF job.src.is_file THEN {source_path} ELSE {}
    /\ scratch = [root |-> FALSE, sub |-> FALSE, stems |-> {}]
    /\ outdir = [stems_dest |-> FALSE, stems |-> {}, mp3 |-> FALSE]
    /\ call = NoCall
    /\ stderr_lines = <<>>
    /\ stdout_lines = <<>>
    /\ returncode = -1
    /\ exc = NoExc
    /\ todo = <<>>
    /\ idx = 0
    /\ stages = <<>>
    /\ failed = NoFail
    /\ sweeps = 0
    /\ linesRead = 0
    /\ pipe = NoPipe
    /\ gui = NoGui
    /\ fn = NoFn

\* An exception leaves the try block: control goes to the except clause.
Raise(text) ==
    /\ exc' = Raised(text)
    /\ pc' = "except"

\* self.log.emit / self.prog.emit / self.done.emit, in order.
Emit(es) == events' = events \o es

Enter(stage) == stages' = Append(stages, stage)

\* ------------------------------------------------- 1. prepare input (local)
\* AcquireLocal that registers tmp_path whether or not it made a copy.
AcquireLocalAlwaysRegisters ==
    /\ pc = "start"
    /\ job.src.is_file
    /\ Enter("Acquiring")
    /\ tmp_path' = LocalTmpPath
    /\ source_path \in files
    /\ files' = files \cup {LocalTmpPath}
    /\ files_to_cleanup' = Append(files_to_cleanup, LocalTmpPath)
    /\ Emit(<<Log(<<"Using local file: ">> \o job.src.stem \o <<job.src.suffix>>),
              Prog(10)>>)
    /\ pc' = "analyze"
    /\ UNCHANGED <<aux, job, scratch, outdir, procVars, exc, todo, idx, failed,
                   sweeps, linesRead>>

\* Lines 113-123: the local-file branch, the copy succeeding (or not needed).
AcquireLocal ==
    /\ pc = "start"
    /\ job.src.is_file
    /\ Enter("Acquiring")
    /\ tmp_path' = LocalTmpPath
    /\ IF source_path # LocalTmpPath
       THEN /\ source_path \in files          \* copy2 needs the source
            /\ files' = files \cup {LocalTmpPath}
            /\ files_to_cleanup' = Append(files_to_cleanup, LocalTmpPath)
       ELSE UNCHANGED <<files, files_to_cleanup>>
    /\ Emit(<<Log(<<"Using local file: ">> \o job.src.stem \o <<job.src.suffix>>),
              Prog(10)>>)
    /\ pc' = "analyze"
    /\ UNCHANGED <<aux, job, scratch, outdir, procVars, exc, todo, idx, failed,
                   sweeps, linesRead>>

\* Lines 113-121: shutil.copy2 raises; it may leave a partial copy behind.
AcquireLocalFail ==
    /\ pc = "start"
    /\ job.src.is_file
    /\ source_path # LocalTmpPath
    /\ Enter("Acquiring")
    /\ tmp_path' = LocalTmpPath
    /\ Emit(<<Log(<<"Using local file: ">> \o job.src.stem \o <<job.src.suffix>>)>>)
    /\ \E partial \in BOOLEAN :
          files' = IF partial THEN files \cup {LocalTmpPath} ELSE files
    /\ Raise(<<"copy2 failed">>)
    /\ UNCHANGED <<aux, job, files_to_cleanup, scratch, outdir, procVars, todo, idx,
                   failed, sweeps, linesRead>>

\* --------------------------------------------------- 1. prepare input (URL)
\* Line 125: import yt_dlp raises before anything is emitted.
AcquireImportFail ==
    /\ pc = "start"
    /\ ~job.src.is_file
    /\ Enter("Acquiring")
    /\ Raise(<<"No module named 'yt_dlp'">>)
    /\ UNCHANGED <<aux, job, events, files_to_cleanup, tmp_path, fsVars, procVars,
                   todo, idx, failed, sweeps, linesRead>>

\* Lines 124-138: the URL branch, the download succeeding.
AcquireUrl ==
    /\ pc = "start"
    /\ ~job.src.is_file
    /\ Enter("Acquiring")
    /\ tmp_path' = DownloadPath
    /\ files' = files \cup {DownloadPath}
    /\ files_to_cleanup' = Append(files_to_cleanup, DownloadPath)
    /\ Emit(<<Log(<<"Fetching & downloading audio ...">>), Prog(0), Prog(10)>>)
    /\ pc' = "analyze"
    /\ UNCHANGED <<aux, job, scratch, outdir, procVars, exc, todo, idx, failed,
                   sweeps, linesRead>>

\* Lines 124-134: extract_info raises; a partial download may stay on disk,
\* and nothing has been registered yet.
AcquireUrlFail ==
    /\ pc = "start"
    /\ ~job.src.is_file
    /\ Enter("Acquiring")
    /\ Emit(<<Log(<<"Fetching & downloading audio ...">>), Prog(0)>>)
    /\ \E partial \in BOOLEAN :
          files' = IF partial THEN files \cup {DownloadPath} ELSE files
    /\ Raise(<<"download failed">>)
    /\ UNCHANGED <<aux, job, files_to_cleanup, tmp_path, scratch, outdir, procVars,
                   todo, idx, failed, sweeps, linesRead>>

\* ------------------------------------------------------ analyze BPM and key
\* Lines 141-143: analyze_bpm_key returns; tempo and key are logged.
Analyze ==
    /\ pc = "analyze"
    /\ Enter("Analyzing")
    /\ Emit(<<Log(<<"Detected tempo: ", "bpm", " BPM">>),
              Log(<<"Estimated key: ", "key">>)>>)
    /\ pc' = "transcode"
    /\ UNCHANGED <<aux, job, files_to_cleanup, tmp_path, fsVars, procVars, exc, todo,
                   idx, failed, sweeps, linesRead>>

\* AnalyzeFail with the failed stage tried again.
AnalyzeFailRetry ==
    /\ pc = "analyze"
    /\ Enter("Analyzing")
    /\ UNCHANGED <<aux, job, pc, events, files_to_cleanup, tmp_path, fsVars, procVars,
                   exc, todo, idx, failed, sweeps, linesRead>>

\* Line 141: analyze_bpm_key raises (lines 34-38); the call is not guarded.
AnalyzeFail ==
    /\ pc = "analyze"
    /\ Enter("Analyzing")
    /\ Raise(<<"analysis failed">>)
    /\ UNCHANGED <<aux, job, events, files_to_cleanup, tmp_path, fsVars, procVars,
                   todo, idx, failed, sweeps, linesRead>>

\* ------------------------------------------------------------ _run_subprocess
\* Lines 71-81: Popen succeeded; the reader starts on stderr.
Popen(cmd, offset, span) ==
    /\ call' = [cmd |-> cmd, progress_offset |-> offset, progress_span |-> span]
    /\ stderr_lines' = <<>>
    /\ stdout_lines' = <<>>
    /\ returncode' = -1
    /\ pc' = "read_stderr"

\* ScaledProgress that divides the span before multiplying.
ScaledProgressDivideFirst(offset, span, pct) == offset + pct * (span \div 100)

\* Line 92: progress_offset + pct * progress_span // 100
ScaledProgress(offset, span, pct) == offset + (pct * span) \div 100

\* Lines 85-92: what one stderr line makes the runner emit.
LineEvents(line, offset, span) ==
    LET stripped == Strip(line, Whitespace)
    IN  (IF stripped # <<>> THEN <<Log(<<"  -> ">> \o stripped)>> ELSE <<>>)
        \o (IF span # 0 /\ HasMarker(line)
            THEN <<Prog(ScaledProgress(offset, span, MarkerPct(line)))>>
            ELSE <<>>)

\* Lines 82-92: one iteration of `for line in proc.stderr`.
ReadStderrLine ==
    /\ pc = "read_stderr"
    /\ linesRead < MaxLines
    /\ \E line \in StderrLines :
          /\ stderr_lines' = Append(stderr_lines, line)
          /\ Emit(LineEvents(line, call.progress_offset, call.progress_span))
    /\ linesRead' = linesRead + 1
    /\ UNCHANGED <<aux, job, pc, files_to_cleanup, tmp_path, fsVars, call,
                   stdout_lines, returncode, exc, todo, idx, stages, failed,
                   sweeps>>

\* What the finished tool leaves on disk: the encoder writes the MP3 when it
\* succeeds (and possibly a partial one when it fails); the separation tool
\* writes its stems under <out>/<model>/<input stem>/, or nothing there.
ToolEffect(cmd, rc) ==
    IF cmd = "ffmpeg"
    THEN /\ \E written \in BOOLEAN :
              /\ rc = 0 => written
              /\ files' = IF written THEN files \cup {mp3_temp_path} ELSE files
         /\ UNCHANGED <<scratch, outdir>>
    ELSE /\ \E present \in BOOLEAN :
              /\ rc # 0 => ~present
              /\ scratch' = IF present
                            THEN [root |-> TRUE, sub |-> TRUE, stems |-> StemNames]
                            ELSE scratch
         /\ UNCHANGED <<files, outdir>>

\* Lines 95-99: stderr is at end of file; stdout is read to its end and
\* proc.wait() returns the exit code.
ProcExit ==
    /\ pc = "read_stderr"
    /\ \E out \in StdoutTexts, rc \in ExitCodes :
          /\ stdout_lines' = out
          /\ returncode' = rc
          /\ ToolEffect(call.cmd, rc)
    /\ pc' = "check_rc"
    /\ UNCHANGED <<aux, job, events, files_to_cleanup, tmp_path, call, stderr_lines,
                   exc, todo, idx, stages, failed, sweeps, linesRead>>

\* FullOutput that drops the captured stdout.
FullOutputStderrOnly(err_lines, out_lines) == Join(err_lines)

\* Lines 102-104: the output that goes into the error.
FullOutput(err_lines, out_lines) ==
    LET error_output  == Join(err_lines)
        stdout_output == Join(out_lines)
    IN  IF stdout_output # <<>>
        THEN <<"STDERR:\n">> \o error_output \o <<"\nSTDOUT:\n">> \o stdout_output
        ELSE error_output

\* Line 105: f"Command failed (exit {proc.returncode}):\n{full_output}"
FailureText(rc, err_lines, out_lines) ==
    <<"Command failed (exit ">> \o IntStr(rc) \o <<"):\n">>
        \o FullOutput(err_lines, out_lines)

\* Lines 101-105: a nonzero exit code raises RuntimeError.
SubprocessRaise ==
    /\ pc = "check_rc"
    /\ returncode # 0
    /\ Raise(FailureText(returncode, stderr_lines, stdout_lines))
    /\ failed' = [cmd |-> call.cmd, returncode |-> returncode,
                  stderr |-> Join(stderr_lines), stdout |-> Join(stdout_lines),
                  at |-> Len(events)]
    /\ call' = NoCall
    /\ stderr_lines' = <<>>
    /\ stdout_lines' = <<>>
    /\ returncode' = -1
    /\ UNCHANGED <<aux, job, events, files_to_cleanup, tmp_path, fsVars, todo, idx,
                   stages, sweeps, linesRead>>

\* Line 101: exit code 0, _run_subprocess returns to its caller.
SubprocessReturn ==
    /\ pc = "check_rc"
    /\ returncode = 0
    /\ pc' = IF call.cmd = "ffmpeg" THEN "transcoded" ELSE "separated"
    /\ call' = NoCall
    /\ stderr_lines' = <<>>
    /\ stdout_lines' = <<>>
    /\ returncode' = -1
    /\ UNCHANGED <<aux, job, events, files_to_cleanup, tmp_path, fsVars, exc, todo,
                   idx, stages, failed, sweeps, linesRead>>

\* ------------------------------------------------------- 2. transcode to MP3
\* TranscodeStart that hands the encoder a progress window.
TranscodeStartScraped ==
    /\ pc = "transcode"
    /\ Enter("Transcoding")
    /\ Emit(<<Log(<<"Transcoding to MP3 ...">>)>>)
    /\ files_to_cleanup' = Append(files_to_cleanup, mp3_temp_path)
    /\ Popen("ffmpeg", 10, 30)
    /\ UNCHANGED <<aux, job, tmp_path, fsVars, exc, todo, idx, failed, sweeps,
                   linesRead>>

\* Lines 146-155: the MP3 is registered for cleanup and the encoder started
\* through _run_subprocess with the default window (no progress scraping).
TranscodeStart ==
    /\ pc = "transcode"
    /\ Enter("Transcoding")
    /\ Emit(<<Log(<<"Transcoding to MP3 ...">>)>>)
    /\ files_to_cleanup' = Append(files_to_cleanup, mp3_temp_path)
    /\ Popen("ffmpeg", 0, 0)
    /\ UNCHANGED <<aux, job, tmp_path, fsVars, exc, todo, idx, failed, sweeps,
                   linesRead>>

\* Lines 146-155 with subprocess.Popen raising (encoder not on PATH).
TranscodeStartFail ==
    /\ pc = "transcode"
    /\ Enter("Transcoding")
    /\ Emit(<<Log(<<"Transcoding to MP3 ...">>)>>)
    /\ files_to_cleanup' = Append(files_to_cleanup, mp3_temp_path)
    /\ Raise(<<"No such file or directory: 'ffmpeg'">>)
    /\ UNCHANGED <<aux, job, tmp_path, fsVars, procVars, todo, idx, failed, sweeps,
                   linesRead>>

\* ------------------------------------------------------ 3. split with Demucs
\* Lines 156-170: Progress(40), then the separation tool is started with the
\* window offset=40, span=50.
SeparateStart ==
    /\ pc = "transcoded"
    /\ Enter("Separating")
    /\ Emit(<<Prog(40), Log(<<"Splitting with Demucs (", job.model, ") ...">>)>>)
    /\ Popen("demucs", 40, 50)
    /\ UNCHANGED <<aux, job, files_to_cleanup, tmp_path, fsVars, exc, todo, idx,
                   failed, sweeps, linesRead>>

\* ------------------------------------------------------------ 4. move results
\* Lines 171-176: Progress(90) and the "moving" log line.
RelocateStart ==
    /\ pc = "separated"
    /\ Enter("Relocating")
    /\ Emit(<<Prog(90), Log(<<"Moving stems to output folder ...">>)>>)
    /\ pc' = "relocate"
    /\ UNCHANGED <<aux, job, files_to_cleanup, tmp_path, fsVars, procVars, exc, todo,
                   idx, failed, sweeps, linesRead>>

\* The orders in which iterdir() may yield the entries of a directory.
Orders(S) ==
    {o \in [1..Cardinality(S) -> S] : \A i, j \in DOMAIN o : o[i] = o[j] => i = j}

\* Lines 178-180: stems_source exists; the destination is created.
RelocateMkdir ==
    /\ pc = "relocate"
    /\ scratch.sub
    /\ outdir' = [outdir EXCEPT !.stems_dest = TRUE]
    /\ todo' \in Orders(scratch.stems)
    /\ pc' = "move"
    /\ UNCHANGED <<aux, job, events, files_to_cleanup, tmp_path, files, scratch,
                   procVars, exc, idx, stages, failed, sweeps, linesRead>>

\* RelocateMissing with the missing subtree treated as an error.
RelocateMissingFatal ==
    /\ pc = "relocate"
    /\ ~scratch.sub
    /\ Raise(<<"Expected stems folder not found">>)
    /\ UNCHANGED <<aux, job, events, files_to_cleanup, tmp_path, fsVars, procVars,
                   todo, idx, stages, failed, sweeps, linesRead>>

\* Lines 187-188: stems_source does not exist; only a warning is logged.
RelocateMissing ==
    /\ pc = "relocate"
    /\ ~scratch.sub
    /\ Emit(<<Log(<<"Warning: Expected stems folder not found at ">>
                    \o stems_source)>>)
    /\ pc' = "copy_mp3"
    /\ UNCHANGED <<aux, job, files_to_cleanup, tmp_path, fsVars, procVars, exc, todo,
                   idx, stages, failed, sweeps, linesRead>>

\* MoveFile that copies the stem instead of moving it.
MoveFileCopyOnly ==
    /\ pc = "move"
    /\ todo # <<>>
    /\ outdir' = [outdir EXCEPT !.stems = @ \cup {Head(todo)}]
    /\ Emit(<<Log(<<"  -> ", Head(todo)>>)>>)
    /\ todo' = Tail(todo)
    /\ UNCHANGED <<aux, job, pc, files_to_cleanup, tmp_path, files, scratch,
                   procVars, exc, idx, stages, failed, sweeps, linesRead>>

\* Lines 180-183: one stem file is moved and its name logged.
MoveFile ==
    /\ pc = "move"
    /\ todo # <<>>
    /\ scratch' = [scratch EXCEPT !.stems = @ \ {Head(todo)}]
    /\ outdir' = [outdir EXCEPT !.stems = @ \cup {Head(todo)}]
    /\ Emit(<<Log(<<"  -> ", Head(todo)>>)>>)
    /\ todo' = Tail(todo)
    /\ UNCHANGED <<aux, job, pc, files_to_cleanup, tmp_path, files, procVars, exc,
                   idx, stages, failed, sweeps, linesRead>>

\* Line 182: shutil.move raises.
MoveFileFail ==
    /\ pc = "move"
    /\ todo # <<>>
    /\ Raise(<<"move failed">>)
    /\ UNCHANGED <<aux, job, events, files_to_cleanup, tmp_path, fsVars, procVars,
                   todo, idx, stages, failed, sweeps, linesRead>>

\* Line 186: the loop is over; rmtree(ignore_errors=True) removes the
\* separation scratch root, or silently leaves it when the removal fails.
MoveDone ==
    /\ pc = "move"
    /\ todo = <<>>
    /\ \E removed \in BOOLEAN :
          scratch' = IF removed
                     THEN [root |-> FALSE, sub |-> FALSE, stems |-> {}]
                     ELSE scratch
    /\ pc' = "copy_mp3"
    /\ UNCHANGED <<aux, job, events, files_to_cleanup, tmp_path, files, outdir,
                   procVars, exc, todo, idx, stages, failed, sweeps, linesRead>>

\* Lines 191-194: the MP3 is copied to the output directory; Progress(100).
CopyMp3 ==
    /\ pc = "copy_mp3"
    /\ mp3_temp_path \in files
    /\ outdir' = [outdir EXCEPT !.mp3 = TRUE]
    /\ Emit(<<Prog(100)>>)
    /\ pc' = "emit_done"
    /\ UNCHANGED <<aux, job, files_to_cleanup, tmp_path, files, scratch, procVars,
                   exc, todo, idx, stages, failed, sweeps, linesRead>>

\* Line 192: shutil.copy2 raises.
CopyMp3Fail ==
    /\ pc = "copy_mp3"
    /\ Raise(<<"copy2 failed">>)
    /\ UNCHANGED <<aux, job, events, files_to_cleanup, tmp_path, fsVars, procVars,
                   todo, idx, stages, failed, sweeps, linesRead>>

\* EmitDone with Progress(100) emitted after the success message.
EmitDoneThenProgress ==
    /\ pc = "emit_done"
    /\ Emit(<<Done(<<SuccessPrefix>> \o stems_dest), Prog(100)>>)
    /\ pc' = "finally"
    /\ UNCHANGED <<aux, job, files_to_cleanup, tmp_path, fsVars, procVars, exc, todo,
                   idx, stages, failed, sweeps, linesRead>>

\* Line 195: the success message.
EmitDone ==
    /\ pc = "emit_done"
    /\ Emit(<<Done(<<SuccessPrefix>> \o stems_dest)>>)
    /\ pc' = "finally"
    /\ UNCHANGED <<aux, job, files_to_cleanup, tmp_path, fsVars, procVars, exc, todo,
                   idx, stages, failed, sweeps, linesRead>>

\* EmitError with the exception swallowed without a message.
EmitErrorSilent ==
    /\ pc = "except"
    /\ exc.raised
    /\ pc' = "finally"
    /\ UNCHANGED <<aux, job, events, files_to_cleanup, tmp_path, fsVars, procVars,
                   exc, todo, idx, stages, failed, sweeps, linesRead>>

\* Lines 197-198: except Exception as e: the failure message.
EmitError ==
    /\ pc = "except"
    /\ exc.raised
    /\ Emit(<<Done(<<ErrorPrefix>> \o exc.text)>>)
    /\ pc' = "finally"
    /\ UNCHANGED <<aux, job, files_to_cleanup, tmp_path, fsVars, procVars, exc, todo, idx,
                   stages, failed, sweeps, linesRead>>

\* ------------------------------------------------------------------- finally
\* Lines 199-201: the cleanup loop is entered.
FinallyEnter ==
    /\ pc = "finally"
    /\ idx' = 1
    /\ sweeps' = sweeps + 1
    /\ pc' = "cleanup"
    /\ UNCHANGED <<aux, job, events, files_to_cleanup, tmp_path, fsVars, procVars,
                   exc, todo, stages, failed, linesRead>>

\* Lines 203-204: the file exists and is deleted.
CleanupUnlink ==
    /\ pc = "cleanup"
    /\ idx <= Len(files_to_cleanup)
    /\ files_to_cleanup[idx] \in files
    /\ files' = files \ {files_to_cleanup[idx]}
    /\ idx' = idx + 1
    /\ UNCHANGED <<aux, job, pc, events, files_to_cleanup, tmp_path, scratch, outdir,
                   procVars, exc, todo, stages, failed, sweeps, linesRead>>

\* Line 203: the file does not exist; nothing to delete.
CleanupSkip ==
    /\ pc = "cleanup"
    /\ idx <= Len(files_to_cleanup)
    /\ files_to_cleanup[idx] \notin files
    /\ idx' = idx + 1
    /\ UNCHANGED <<aux, job, pc, events, files_to_cleanup, tmp_path, fsVars, procVars,
                   exc, todo, stages, failed, sweeps, linesRead>>

\* CleanupError with the deletion error reported instead of swallowed.
CleanupErrorSurfaces ==
    /\ pc = "cleanup"
    /\ idx <= Len(files_to_cleanup)
    /\ files_to_cleanup[idx] \in files
    /\ Emit(<<Done(<<ErrorPrefix, "unlink failed">>)>>)
    /\ idx' = idx + 1
    /\ UNCHANGED <<aux, job, pc, files_to_cleanup, tmp_path, fsVars, procVars, exc,
                   todo, stages, failed, sweeps, linesRead>>

\* Lines 205-206: exists() or unlink() raises; the error is swallowed.
CleanupError ==
    /\ pc = "cleanup"
    /\ idx <= Len(files_to_cleanup)
    /\ files_to_cleanup[idx] \in files
    /\ idx' = idx + 1
    /\ UNCHANGED <<aux, job, pc, events, files_to_cleanup, tmp_path, fsVars, procVars,
                   exc, todo, stages, failed, sweeps, linesRead>>

\* The loop is over and run() returns.
CleanupDone ==
    /\ pc = "cleanup"
    /\ idx > Len(files_to_cleanup)
    /\ pc' = "finished"
    /\ UNCHANGED <<aux, job, events, files_to_cleanup, tmp_path, fsVars, procVars,
                   exc, todo, idx, stages, failed, sweeps, linesRead>>

\* ------------------------------------------------------------ specification
Next ==
    \/ AcquireLocal
    \/ AcquireLocalFail
    \/ AcquireImportFail
    \/ AcquireUrl
    \/ AcquireUrlFail
    \/ Analyze
    \/ AnalyzeFail
    \/ TranscodeStart
    \/ TranscodeStartFail
    \/ ReadStderrLine
    \/ ProcExit
    \/ SubprocessRaise
    \/ SubprocessReturn
    \/ SeparateStart
    \/ RelocateStart
    \/ RelocateMkdir
    \/ RelocateMissing
    \/ MoveFile
    \/ MoveFileFail
    \/ MoveDone
    \/ CopyMp3
    \/ CopyMp3Fail
    \/ EmitDone
    \/ EmitError
    \/ FinallyEnter
    \/ CleanupUnlink
    \/ CleanupSkip
    \/ CleanupError
    \/ CleanupDone

Spec == Init /\ [][Next]_vars

\* ====================================================================== claims
AfterTry == pc \in {"finally", "cleanup", "finished"}
N == Len(events)
DoneIdx == {i \in 1..N : IsDone(events[i])}
StageOrder == <<"Acquiring", "Analyzing", "Transcoding", "Separating", "Relocating">>
StagesEntered == {stages[i] : i \in 1..Len(stages)}
IsPrefix(s, t) == Len(s) <= Len(t) /\ SubSeq(t, 1, Len(s)) = s
MovingLog == Log(<<"Moving stems to output folder ...">>)
WarningLog == Log(<<"Warning: Expected stems folder not found at ">> \o stems_source)
Warned == \E i \in 1..N : IsLog(events[i]) /\ events[i] = WarningLog
EmptyOutdir == [stems_dest |-> FALSE, stems |-> {}, mp3 |-> FALSE]
EndsWith100ThenSuccess ==
    /\ N >= 2
    /\ IsProg(events[N - 1]) /\ events[N - 1].val = 100
    /\ IsSuccessDone(events[N])

\* C1: a job whose stages all succeed ends its event stream with
\* Progress(100) immediately followed by the success Done; a success Done is
\* always the last event and always directly preceded by Progress(100).
C1_SuccessEndsWith100ThenDone ==
    /\ (AfterTry /\ ~exc.raised) => EndsWith100ThenSuccess
    /\ \A i \in 1..N : IsSuccessDone(events[i]) =>
          /\ i = N
          /\ i >= 2 /\ IsProg(events[i - 1]) /\ events[i - 1].val = 100

C1_Witness ==
    /\ pc = "finished" /\ ~exc.raised
    /\ IsSuccessDone(events[N])
    /\ job.bitrate = "96" /\ job.two_stem /\ ~job.src.is_file

\* C2 (as claimed): the Progress events of one run are non-decreasing.
C2_ProgressNonDecreasing ==
    \A i, j \in 1..N :
        (i < j /\ IsProg(events[i]) /\ IsProg(events[j]))
            => events[i].val <= events[j].val

\* C3 (as claimed): every Progress event is in 0..100, and those emitted
\* while the separation tool runs are in 40..90.
C3_ProgressInRange ==
    /\ \A i \in 1..N : IsProg(events[i]) => events[i].val \in 0..100
    /\ call.cmd = "demucs" =>
          LET split == CHOOSE i \in 1..N :
                          /\ IsLog(events[i])
                          /\ events[i].val[1] = "Splitting with Demucs ("
          IN  \A i \in (split + 1)..N :
                  IsProg(events[i]) => events[i].val \in 40..90

\* C4: once the separation tool has exited with a nonzero code, the only
\* event that follows is one failure Done whose message holds the exit code
\* and the captured stderr (and stdout when non-empty); the Relocating stage
\* is never entered and nothing reaches the output directory.
C4_SeparationFailureReported ==
    failed.cmd = "demucs" =>
        LET tail == SubSeq(events, failed.at + 1, N)
        IN  /\ failed.returncode # 0
            /\ IF pc = "except"
               THEN tail = <<>>
               ELSE /\ Len(tail) = 1
                    /\ IsFailureDone(tail[1])
                    /\ Contains(tail[1].val,
                           <<"Command failed (exit ">>
                               \o IntStr(failed.returncode) \o <<"):\n">>)
                    /\ Contains(tail[1].val, failed.stderr)
                    /\ failed.stdout # <<>> => Contains(tail[1].val, failed.stdout)
            /\ \A i \in 1..N : events[i] # MovingLog
            /\ "Relocating" \notin StagesEntered
            /\ outdir = EmptyOutdir

C4_Witness ==
    /\ failed.cmd = "demucs" /\ pc = "finished"
    /\ failed.stderr # <<>> /\ failed.stdout # <<>>

C7_StagesLinear ==
    /\ [](IsPrefix(stages, StageOrder))
    /\ [][(exc.raised) => (stages' = stages /\ exc' = exc)]_vars
    /\ [][(exc'.raised /\ ~exc.raised) => (pc' = "except")]_vars
    /\ []((exc.raised /\ AfterTry) => IsFailureDone(events[N]))

\* a run that failed in Transcoding and entered nothing after it
C7_Witness ==
    /\ pc = "finished" /\ exc.raised
    /\ stages = SubSeq(StageOrder, 1, 3)

\* C8 (as claimed): the first Progress event of every job is 0, and the
\* Acquiring stage has emitted Progress(0) then Progress(10) when it is over.
C8_AcquiringEmitsZeroThenTen ==
    /\ \A i \in 1..N :
          (IsProg(events[i]) /\ \A j \in 1..(i - 1) : ~IsProg(events[j]))
              => events[i].val = 0
    /\ pc = "analyze" =>
          SelectSeq(events, IsProg) = <<Prog(0), Prog(10)>>

\* C9 (as claimed): an analysis failure does not abort the pipeline: a run
\* that entered Analyzing goes on to Transcoding, and no Done message is the
\* analysis error.
C9_AnalysisFailureNotFatal ==
    /\ (pc = "finished" /\ "Analyzing" \in StagesEntered)
          => "Transcoding" \in StagesEntered
    /\ \A i \in DoneIdx : events[i] # Done(<<ErrorPrefix, "analysis failed">>)

\* C10: when stems_source is missing the relocation logs the warning,
\* creates and moves nothing and goes on to copy the MP3; such a run can only
\* fail in that copy, and otherwise ends with the MP3 in the output
\* directory, Progress(100) and the success Done.
C10_MissingSubtreeStillSucceeds ==
    /\ [][(pc = "relocate" /\ ~scratch.sub) =>
             (/\ events' = Append(events, WarningLog)
              /\ outdir' = outdir
              /\ scratch' = scratch
              /\ pc' = "copy_mp3")]_vars
    /\ [](Warned =>
             /\ outdir.stems = {} /\ ~outdir.stems_dest
             /\ exc.raised => exc.text = <<"copy2 failed">>
             /\ (AfterTry /\ ~exc.raised) =>
                   (outdir.mp3 /\ EndsWith100ThenSuccess))

C10_Witness ==
    /\ Warned /\ pc = "finished" /\ ~exc.raised
    /\ outdir = [stems_dest |-> FALSE, stems |-> {}, mp3 |-> TRUE]
    /\ IsSuccessDone(events[N])

\* ------------------------------------------------------------ C13, C14, C18, C20
Registered == {files_to_cleanup[i] : i \in 1..Len(files_to_cleanup)}

\* The temp files this job creates in the temp directory.
JobTemps ==
    (IF job.src.is_file
     THEN (IF source_path # LocalTmpPath THEN {LocalTmpPath} ELSE {})
     ELSE {DownloadPath})
    \cup {mp3_temp_path}

\* C13 (as claimed): after a run whose deletions all succeeded (no registered
\* file is left), none of the temp files the job created remains.
C13_NoTempFileRemains ==
    (pc = "finished" /\ \A f \in Registered : f \notin files)
        => files \cap JobTemps = {}

SucceededWithStems == AfterTry /\ ~exc.raised /\ ~Warned

\* C14 (as claimed): after a successful job whose scratch subtree existed,
\* every stem is in the destination, the separation scratch root is gone and
\* the MP3 copy is in the output directory.
C14_StemsMovedScratchRootGone ==
    SucceededWithStems =>
        /\ outdir = [stems_dest |-> TRUE, stems |-> StemNames, mp3 |-> TRUE]
        /\ ~scratch.root

\* C14 (amended): after a successful job whose scratch subtree existed, every
\* stem is in the destination and none is left in the scratch subtree, the
\* scratch root is removed or (its removal having failed silently) left
\* empty, and the MP3 copy is in the output directory, made while the temp
\* MP3 still existed (before the sweep).
C14_StemsMovedScratchEmptied ==
    /\ SucceededWithStems =>
          /\ outdir = [stems_dest |-> TRUE, stems |-> StemNames, mp3 |-> TRUE]
          /\ scratch \in { [root |-> FALSE, sub |-> FALSE, stems |-> {}],
                           [root |-> TRUE, sub |-> TRUE, stems |-> {}] }
    /\ (pc \in {"emit_done", "finally"} /\ ~exc.raised) =>
          (outdir.mp3 /\ mp3_temp_path \in files /\ sweeps = 0)

C14_Witness ==
    /\ pc = "finished" /\ SucceededWithStems
    /\ outdir.stems = StemNames /\ ~scratch.root
    /\ mp3_temp_path \notin files

\* C18: between the "Transcoding" log line and the end of the Transcoding
\* stage no Progress event is emitted, whatever the encoder prints; the first
\* Progress event after it is Progress(40), emitted when Separating starts,
\* and a failed encoder run is followed by no Progress event at all.
C18_TranscodingEmitsOnly40 ==
    "Transcoding" \in StagesEntered =>
        LET t == CHOOSE i \in 1..N : events[i] = Log(<<"Transcoding to MP3 ...">>)
            after == SelectSeq(SubSeq(events, t + 1, N), IsProg)
        IN  /\ stages[Len(stages)] = "Transcoding" => after = <<>>
            /\ failed.cmd = "ffmpeg" => after = <<>>
            /\ "Separating" \in StagesEntered =>
                  (after # <<>> /\ after[1] = Prog(40))

\* the encoder printed a percentage marker and then failed
C18_Witness ==
    /\ pc = "finished" /\ failed.cmd = "ffmpeg"
    /\ Contains(failed.stderr, <<"5", "0", "%">>)

\* C20: in a local-file job the source file is never registered and never
\* deleted; only the scratch copy (when its path differs from the source)
\* and the MP3 are registered, and neither is the source path.
C20_SourceNeverDeleted ==
    job.src.is_file =>
        /\ source_path \notin Registered
        /\ source_path \in files
        /\ Registered \subseteq {LocalTmpPath, mp3_temp_path}
        /\ LocalTmpPath \in Registered => LocalTmpPath # source_path
        /\ mp3_temp_path # source_path

\* a finished job whose source lies in the temp directory under the name of
\* a transcoded MP3
C20_Witness ==
    /\ job.src.is_file /\ job.src.dir = "tmp" /\ job.bitrate = "96"
    /\ pc = "finished" /\ sweeps = 1
    /\ mp3_temp_path \in Registered

\* ================================================= the helper functions alone
\* The detailed worker, not started.
WorkerAtRest ==
    /\ job = [src |-> [is_file |-> FALSE, dir |-> "tmp", stem |-> DirtyStem,
                       suffix |-> ".webm"],
              bitrate |-> "320", model |-> "htdemucs", two_stem |-> FALSE]
    /\ pc = "not started"
    /\ events = <<>>
    /\ files_to_cleanup = <<>>
    /\ tmp_path = NoPath
    /\ files = {}
    /\ scratch = [root |-> FALSE, sub |-> FALSE, stems |-> {}]
    /\ outdir = [stems_dest |-> FALSE, stems |-> {}, mp3 |-> FALSE]
    /\ call = NoCall
    /\ stderr_lines = <<>>
    /\ stdout_lines = <<>>
    /\ returncode = -1
    /\ exc = NoExc
    /\ todo = <<>>
    /\ idx = 0
    /\ stages = <<>>
    /\ failed = NoFail
    /\ sweeps = 0
    /\ linesRead = 0

\* The characters of the inputs: a letter, the characters sanitize_filename
\* treats specially, digits and the percent sign.
FnAlphabet == {"a", "_", " ", ":", "5", "0", "%"}
FnStrings == UNION {[1..k -> FnAlphabet] : k \in 0..MaxStrLen}

\* The windows _run_subprocess is called with (lines 155 and 170).
Windows == {<<0, 0>>, <<40, 50>>}

InitFn ==
    /\ WorkerAtRest
    /\ pipe = NoPipe
    /\ gui = NoGui
    /\ fn \in {[NoFn EXCEPT !.arg = str] : str \in FnStrings}

\* Lines 115, 136: title = sanitize_filename(stem)
Sanitize ==
    /\ fn.op = "none"
    /\ fn' = [fn EXCEPT !.op = "sanitized", !.res = sanitize_filename(fn.arg)]
    /\ UNCHANGED <<workerVars, pipe, gui>>

\* sanitize_filename applied to its own result.
SanitizeAgain ==
    /\ fn.op = "sanitized"
    /\ fn' = [fn EXCEPT !.op = "resanitized",
                        !.again = sanitize_filename(fn.res)]
    /\ UNCHANGED <<workerVars, pipe, gui>>

\* Lines 82-92: the loop body on one stderr line (text plus its newline).
ScanLine ==
    /\ fn.op = "none"
    /\ \E w \in Windows :
          fn' = [fn EXCEPT !.op = "scanned", !.offset = w[1], !.span = w[2],
                           !.res = LineEvents(Append(fn.arg, "\n"), w[1], w[2])]
    /\ UNCHANGED <<workerVars, pipe, gui>>

NextFn ==
    \/ Sanitize
    \/ SanitizeAgain
    \/ ScanLine

SpecFn == InitFn /\ [][NextFn]_vars

\* The percent signs of the scanned text that directly follow a digit.
MarkedAt == {p \in 2..Len(fn.arg) : fn.arg[p] = "%" /\ fn.arg[p - 1] \in Digits}

\* The number in front of the first such percent sign: its last one to three
\* digits.
MarkedPct ==
    LET p == CHOOSE q \in MarkedAt : \A r \in MarkedAt : q <= r
        d(j) == IF p - j >= 1 /\ fn.arg[p - j] \in Digits
                THEN DigitVal(fn.arg[p - j]) ELSE -1
    IN  IF d(2) < 0 THEN d(1)
        ELSE IF d(3) < 0 THEN 10 * d(2) + d(1)
        ELSE 100 * d(3) + 10 * d(2) + d(1)

\* C15: with a nonzero span, a line with a percentage marker yields exactly
\* one Progress event, whose value v is offset + floor(pct * span / 100)
\* (100 * (v - offset) <= pct * span < 100 * (v - offset + 1)); "50%" in the
\* window (40, 50) yields 65; a line without a marker yields no Progress.
C15_ProgressMapping ==
    (fn.op = "scanned" /\ fn.span # 0) =>
        LET progs == SelectSeq(fn.res, IsProg)
        IN  /\ IF MarkedAt = {}
               THEN progs = <<>>
               ELSE /\ Len(progs) = 1
                    /\ LET v == progs[1].val - fn.offset
                       IN  /\ 100 * v <= MarkedPct * fn.span
                           /\ MarkedPct * fn.span < 100 * (v + 1)
            /\ (fn.arg = <<"5", "0", "%">> /\ fn.offset = 40 /\ fn.span = 50)
                  => progs = <<Prog(65)>>

C15_Witness ==
    /\ fn.op = "scanned" /\ fn.arg = <<"5", "0", "%">>
    /\ fn.offset = 40 /\ fn.span = 50
    /\ fn.res = <<Log(<<"  -> ", "5", "0", "%">>), Prog(65)>>

\* C16: sanitizing a sanitized name changes nothing.
C16_SanitizeIdempotent ==
    fn.op = "resanitized" => fn.again = fn.res

C16_Witness ==
    /\ fn.op = "resanitized"
    /\ fn.arg = <<"a", ":", "_", "a">>
    /\ fn.res = <<"a", "_", "a">>

\* C17: a sanitized name holds none of < > : " / \ | ? *, no whitespace and
\* no two adjacent underscores, and neither starts nor ends with an
\* underscore or a space; "My: Song / Mix" becomes "My_Song_Mix".
C17_SanitizedShape ==
    /\ fn.op = "sanitized" =>
          /\ \A i \in 1..Len(fn.res) :
                fn.res[i] \notin (IllegalChars \cup {" ", "\n", "\t"})
          /\ \A i \in 1..(Len(fn.res) - 1) :
                ~(fn.res[i] = "_" /\ fn.res[i + 1] = "_")
          /\ fn.res # <<>> =>
                (fn.res[1] \notin {"_", " "} /\ fn.res[Len(fn.res)] \notin {"_", " "})
    /\ sanitize_filename(<<"M", "y", ":", " ", "S", "o", "n", "g", " ", "/",
                           " ", "M", "i", "x">>)
          = <<"M", "y", "_", "S", "o", "n", "g", "_", "M", "i", "x">>

C17_Witness ==
    /\ fn.op = "sanitized"
    /\ fn.arg = <<" ", ":", "a", "_">>
    /\ fn.res = <<"a">>

\* ======================================== the process runner and its two pipes
\* pipe.cap: lines an OS pipe holds; pipe.err, pipe.out: lines waiting in the
\* stderr and stdout pipes; pipe.pending: the stream the tool is writing to;
\* pipe.written: lines the tool has produced; pipe.reader: where
\* _run_subprocess is; pipe.gotErr, pipe.gotOut: lengths of stderr_lines and
\* stdout_lines.
InitPipe ==
    /\ WorkerAtRest
    /\ gui = NoGui
    /\ fn = NoFn
    /\ \E c \in 1..MaxPipeCap : pipe = [NoPipe EXCEPT !.cap = c]

\* Lines 71-77: Popen with stdout=PIPE and stderr=PIPE; line 82 starts
\* iterating proc.stderr.
PipeSpawn ==
    /\ pipe.reader = "idle"
    /\ pipe' = [pipe EXCEPT !.reader = "stderr"]
    /\ UNCHANGED <<workerVars, gui, fn>>

\* The tool begins to write one more line, to either stream.
ToolChoose ==
    /\ pipe.reader # "idle" /\ ~pipe.exited
    /\ pipe.pending = "none"
    /\ pipe.written < MaxWrites
    /\ \E stream \in {"err", "out"} :
          pipe' = [pipe EXCEPT !.pending = stream, !.written = @ + 1]
    /\ UNCHANGED <<workerVars, gui, fn>>

\* The write completes when the pipe has room; it blocks while the pipe is
\* full.
ToolWrite ==
    /\ ~pipe.exited
    /\ \/ /\ pipe.pending = "err" /\ pipe.err < pipe.cap
          /\ pipe' = [pipe EXCEPT !.err = @ + 1, !.pending = "none"]
       \/ /\ pipe.pending = "out" /\ pipe.out < pipe.cap
          /\ pipe' = [pipe EXCEPT !.out = @ + 1, !.pending = "none"]
    /\ UNCHANGED <<workerVars, gui, fn>>

\* The tool exits, which closes its ends of both pipes.
ToolExit ==
    /\ pipe.reader # "idle" /\ ~pipe.exited
    /\ pipe.pending = "none"
    /\ pipe' = [pipe EXCEPT !.exited = TRUE]
    /\ UNCHANGED <<workerVars, gui, fn>>

\* Lines 82-83: one iteration of `for line in proc.stderr`.
DrainStderr ==
    /\ pipe.reader = "stderr" /\ pipe.err > 0
    /\ pipe' = [pipe EXCEPT !.err = @ - 1, !.gotErr = @ + 1]
    /\ UNCHANGED <<workerVars, gui, fn>>

\* Line 82 ends at end-of-file: the pipe is empty and its write end closed.
\* Line 96 starts iterating proc.stdout.
StderrEOF ==
    /\ pipe.reader = "stderr" /\ pipe.err = 0 /\ pipe.exited
    /\ pipe' = [pipe EXCEPT !.reader = "stdout"]
    /\ UNCHANGED <<workerVars, gui, fn>>

\* Lines 96-97: one iteration of `for line in proc.stdout`.
DrainStdout ==
    /\ pipe.reader = "stdout" /\ pipe.out > 0
    /\ pipe' = [pipe EXCEPT !.out = @ - 1, !.gotOut = @ + 1]
    /\ UNCHANGED <<workerVars, gui, fn>>

\* Line 96 ends at end-of-file.
StdoutEOF ==
    /\ pipe.reader = "stdout" /\ pipe.out = 0 /\ pipe.exited
    /\ pipe' = [pipe EXCEPT !.reader = "wait"]
    /\ UNCHANGED <<workerVars, gui, fn>>

\* Lines 99-105: proc.wait(), then return or raise.
WaitReturn ==
    /\ pipe.reader = "wait" /\ pipe.exited
    /\ pipe' = [pipe EXCEPT !.reader = "returned"]
    /\ UNCHANGED <<workerVars, gui, fn>>

NextPipe ==
    \/ PipeSpawn
    \/ ToolChoose
    \/ ToolWrite
    \/ ToolExit
    \/ DrainStderr
    \/ StderrEOF
    \/ DrainStdout
    \/ StdoutEOF
    \/ WaitReturn

SpecPipe == InitPipe /\ [][NextPipe]_vars

\* The tool is blocked writing to a full stdout pipe.
ToolBlocked ==
    ~pipe.exited /\ pipe.pending = "out" /\ pipe.out = pipe.cap

\* The reader is blocked on an empty stderr pipe that is still open.
ReaderBlocked ==
    pipe.reader = "stderr" /\ pipe.err = 0 /\ ~pipe.exited

\* C11: the process runner never deadlocks on a full pipe: it is never
\* blocked reading one stream while the tool is blocked writing the other.
C11_NoPipeDeadlock ==
    ~(ToolBlocked /\ ReaderBlocked)

\* ============================================ the main window and its workers
\* gui.run_btn: the run button is enabled; gui.started: workers created so
\* far (the latest is self.worker); gui.inbox: done signals queued for the
\* GUI thread; gui.wpc, gui.wsrc, gui.reg, gui.widx: each worker's position
\* in run(), its source, its files_to_cleanup and its position in the sweep;
\* gui.fs: for each temp path, the worker that last wrote it (0: absent).
InitGui ==
    /\ WorkerAtRest
    /\ pipe = NoPipe
    /\ fn = NoFn
    /\ gui = NoGui

\* tmp_dir / f"{title}{suffix}" (lines 119, 127-136) and
\* tmp_dir / f"{title}_{bitrate}k.mp3" (lines 147-148) of worker w.
AudioPath(w) == <<"audio", gui.wsrc[w]>>
Mp3Path(w) == <<"mp3", gui.wsrc[w]>>

\* run() of worker w has been entered and has not returned.
Running(w) == gui.wpc[w] \notin {"idle", "finished"}

\* Lines 310-332: a click on the enabled run button.
start_job ==
    /\ ~gui.crashed
    /\ gui.run_btn
    /\ gui.started < MaxJobs
    /\ \E src \in GSources :
          gui' = [gui EXCEPT !.run_btn = FALSE,
                             !.started = @ + 1,
                             !.wsrc[gui.started + 1] = src,
                             !.wpc[gui.started + 1] = "acquire"]
    /\ UNCHANGED <<workerVars, pipe, fn>>

\* Lines 338-339: the GUI thread handles one queued done signal.
job_done ==
    /\ ~gui.crashed
    /\ gui.inbox # <<>>
    /\ gui' = [gui EXCEPT !.inbox = Tail(@), !.run_btn = TRUE]
    /\ UNCHANGED <<workerVars, pipe, fn>>

\* Line 328 rebinds self.worker, the only reference the window holds, while
\* the previous QThread may still be running: destroying a running QThread
\* aborts the program; otherwise the old thread runs on.
OrphanAbort ==
    /\ ~gui.crashed
    /\ \E w \in WorkerIds : w < gui.started /\ Running(w)
    /\ gui' = [gui EXCEPT !.crashed = TRUE]
    /\ UNCHANGED <<workerVars, pipe, fn>>

\* Lines 113-138: the input is written to the temp directory and registered.
GuiAcquire(w) ==
    /\ ~gui.crashed
    /\ gui.wpc[w] = "acquire"
    /\ gui' = [gui EXCEPT !.fs[AudioPath(w)] = w,
                          !.reg[w] = Append(@, AudioPath(w)),
                          !.wpc[w] = "transcode"]
    /\ UNCHANGED <<workerVars, pipe, fn>>

\* Lines 146-156: the MP3 is registered, then the encoder reads the input
\* and writes the MP3; it fails when the input is gone.
GuiTranscode(w) ==
    /\ ~gui.crashed
    /\ gui.wpc[w] = "transcode"
    /\ IF gui.fs[AudioPath(w)] # 0
       THEN gui' = [gui EXCEPT !.reg[w] = Append(@, Mp3Path(w)),
                               !.fs[Mp3Path(w)] = w,
                               !.wpc[w] = "separate"]
       ELSE gui' = [gui EXCEPT !.reg[w] = Append(@, Mp3Path(w)),
                               !.wpc[w] = "emit_error"]
    /\ UNCHANGED <<workerVars, pipe, fn>>

\* Lines 158-192: the separator reads the MP3, the stems are relocated and
\* the MP3 is copied to the output directory; fails when the MP3 is gone.
GuiSeparate(w) ==
    /\ ~gui.crashed
    /\ gui.wpc[w] = "separate"
    /\ gui' = [gui EXCEPT !.wpc[w] =
                  IF gui.fs[Mp3Path(w)] # 0 THEN "emit_done" ELSE "emit_error"]
    /\ UNCHANGED <<workerVars, pipe, fn>>

\* Lines 195 and 198: done.emit queues the signal for the GUI thread; the
\* worker goes on to its finally block.
GuiEmit(w) ==
    /\ ~gui.crashed
    /\ gui.wpc[w] \in {"emit_done", "emit_error"}
    /\ gui' = [gui EXCEPT !.inbox = Append(@, [id |-> w,
                                               ok |-> gui.wpc[w] = "emit_done"]),
                          !.wpc[w] = "cleanup"]
    /\ UNCHANGED <<workerVars, pipe, fn>>

\* Lines 201-204: one iteration of the sweep: unlink the path if it exists.
GuiUnlink(w) ==
    /\ ~gui.crashed
    /\ gui.wpc[w] = "cleanup"
    /\ gui.widx[w] < Len(gui.reg[w])
    /\ gui' = [gui EXCEPT !.fs[gui.reg[w][gui.widx[w] + 1]] = 0,
                          !.widx[w] = @ + 1]
    /\ UNCHANGED <<workerVars, pipe, fn>>

\* Line 206: the sweep is over and run() returns.
GuiFinish(w) ==
    /\ ~gui.crashed
    /\ gui.wpc[w] = "cleanup"
    /\ gui.widx[w] = Len(gui.reg[w])
    /\ gui' = [gui EXCEPT !.wpc[w] = "finished"]
    /\ UNCHANGED <<workerVars, pipe, fn>>

NextGui ==
    \/ start_job
    \/ job_done
    \/ OrphanAbort
    \/ \E w \in WorkerIds : GuiAcquire(w)
    \/ \E w \in WorkerIds : GuiTranscode(w)
    \/ \E w \in WorkerIds : GuiSeparate(w)
    \/ \E w \in WorkerIds : GuiEmit(w)
    \/ \E w \in WorkerIds : GuiUnlink(w)
    \/ \E w \in WorkerIds : GuiFinish(w)

SpecGui == InitGui /\ [][NextGui]_vars

\* C12: at most one worker is executing run() at any time, and the run
\* button is enabled (a new job can be started) only when no worker is.
C12_AtMostOneWorkerRunning ==
    /\ Cardinality({w \in WorkerIds : Running(w)}) <= 1
    /\ gui.run_btn => \A w \in WorkerIds : ~Running(w)

\* Worker o has written temp path p and has yet to read it.
StillNeeds(o, p) ==
    \/ p = AudioPath(o) /\ gui.wpc[o] = "transcode"
    \/ p = Mp3Path(o) /\ gui.wpc[o] = "separate"

\* C19: no step deletes a temp file that a running job has written and
\* still needs: a sweep deletes only its own job's files.
C19_SweepDeletesOwnFilesOnly ==
    [][\A p \in GPaths :
          (gui.fs[p] # 0 /\ gui'.fs[p] = 0) => ~StillNeeds(gui.fs[p], p)]_vars

====
